---- MODULE Spec2Model ----
(***************************************************************************)
(* Model of the kennel booking application dog_boarding/app.py: the room   *)
(* availability query, the booking-creation handler and the staff          *)
(* confirmation handler, over the SQLite tables rooms, users, pets,        *)
(* bookings and booking_pets.                                              *)
(*                                                                         *)
(* Every exec_sql / query_all / query_one call opens its own connection    *)
(* and is its own transaction, so one handler is a sequence of atomic      *)
(* database steps between which other handlers may run.                    *)
(*                                                                         *)
(* Dates are ISO strings "YYYY-MM-DD" in the program, compared as text by  *)
(* Python and by SQLite; they are modelled by day numbers 1..MaxDay, whose *)
(* order is the order of those strings.  NoDate is an absent or empty form *)
(* field.  Texts that are sorted (room type, room name) are sequences of   *)
(* character codes, compared byte-wise as SQLite's BINARY collation does.  *)
(***************************************************************************)
EXTENDS Integers, Sequences, FiniteSets, TLC

VARIABLES rooms, users, pets, bookings, booking_pets,
          pc, req, available_rooms, booking_id, pet_index,
          response, rendered_rooms

vars == <<rooms, users, pets, bookings, booking_pets,
          pc, req, available_rooms, booking_id, pet_index,
          response, rendered_rooms>>

\* The database tables.
store == <<rooms, users, pets, bookings, booking_pets>>

\* The locals of the new_booking handlers that are between two database calls.
locals == <<pc, req, available_rooms, booking_id, pet_index>>

(* ------------------------------ bounds -------------------------------- *)

\* Number of new_booking requests that can be in flight at the same time.
NumProcs == 2

\* Rows the bookings table may hold: creation requests are not taken beyond it.
MaxBookings == 2

\* Dates posted in the form range over day 1..MaxDay.
MaxDay == 2

Procs == 1..NumProcs

\* An absent or empty date field (request.form.get returns None or "").
NoDate == 0

DateInputs == NoDate..MaxDay

\* An absent room_id field: int(None) raises.
NoRoomId == 0

(* ------------------------------ texts --------------------------------- *)

\* Byte-wise comparison of two texts (SQLite BINARY collation): the text with
\* the smaller byte at the first position where they differ, or else the
\* shorter one, comes first.
LexLess(a, b) ==
    LET shorter == IF Len(a) < Len(b) THEN Len(a) ELSE Len(b)
        differ == {k \in 1..shorter : a[k] # b[k]}
    IN IF differ = {} THEN Len(a) < Len(b)
       ELSE LET first == CHOOSE k \in differ : \A j \in differ : k <= j
            IN a[first] < b[first]

\* "Standard", "Deluxe", "Suite"
TypeStandard == <<83, 116, 97, 110, 100, 97, 114, 100>>
TypeDeluxe == <<68, 101, 108, 117, 120, 101>>
TypeSuite == <<83, 117, 105, 116, 101>>

\* The rows init_db seeds into an empty rooms table; ids are AUTOINCREMENT.
SeedRooms ==
    << [id |-> 1, name |-> TypeStandard \o <<32, 49>>, room_type |-> TypeStandard, capacity |-> 1],
       [id |-> 2, name |-> TypeStandard \o <<32, 50>>, room_type |-> TypeStandard, capacity |-> 2],
       [id |-> 3, name |-> TypeDeluxe \o <<32, 49>>, room_type |-> TypeDeluxe, capacity |-> 1],
       [id |-> 4, name |-> TypeSuite \o <<32, 49>>, room_type |-> TypeSuite, capacity |-> 2] >>

\* Accounts: a registered owner, a staff member and an admin (register creates
\* owners; the other roles are set in the users table).
SeedUsers == <<"owner", "staff", "admin">>

\* Accounts that send booking requests: one with a pet, one without.
BookingUsers == {1, 3}

\* pets[i] is the owner_id of the pet with id i (rows written by new_pet): the
\* owner and the staff member have one pet each.
SeedPets == <<1, 2>>

UserIds == DOMAIN SeedUsers

\* room_id values a client may post: two seeded rooms, an id of no room, and no value.
RoomIdInputs == {NoRoomId, 1, 2, 5}

\* int(request.form.get("room_id")) raises for an absent field.
IntRaises(room_id) == room_id = NoRoomId

\* pet_ids lists a client may post (getlist), in form order.
PetIdLists == {<<>>, <<1>>, <<1, 2>>}

\* Booking ids a client may ask to confirm (<int:bid>): those the table may
\* hold and one it never holds.
BidInputs == 1..(MaxBookings + 1)

SeedPetsOf(u) == {k \in DOMAIN SeedPets : SeedPets[k] = u}

AllForms ==
    [user : BookingUsers, start_date : DateInputs, end_date : DateInputs,
     pet_ids : PetIdLists, room_id : RoomIdInputs, confirm : BOOLEAN]

\* The form fails the validation of lines 293-299.
Rejected(f) ==
    \/ f.start_date = NoDate \/ f.end_date = NoDate \/ f.pet_ids = <<>>
    \/ f.start_date > f.end_date

\* The number of reasons for which lines 293-299 reject the form.
Defects(f) ==
    (IF f.start_date = NoDate THEN 1 ELSE 0)
    + (IF f.end_date = NoDate THEN 1 ELSE 0)
    + (IF f.pet_ids = <<>> THEN 1 ELSE 0)
    + (IF f.start_date # NoDate /\ f.end_date # NoDate /\ f.start_date > f.end_date
       THEN 1 ELSE 0)

\* The forms posted to /bookings/new.  Fields the handler does not read on the
\* path a form takes are left at one value: nothing but the pet list of the
\* account is read for an account without pets, and the room id is read only
\* with confirm=1.  A rejected form has one defect and, with confirm=1, names
\* room 1.
Posted(f) ==
    /\ SeedPetsOf(f.user) = {} =>
          f.start_date = NoDate /\ f.end_date = NoDate /\ f.pet_ids = <<>>
             /\ ~ f.confirm
    /\ SeedPetsOf(f.user) # {} => Defects(f) <= 1
    /\ ~ f.confirm => f.room_id = NoRoomId
    /\ (f.confirm /\ Rejected(f)) => f.room_id = 1

PostedForms == {f : f \in {g \in AllForms : Posted(g)}}

NoReq == [user |-> 0, start_date |-> NoDate, end_date |-> NoDate,
          pet_ids |-> <<>>, room_id |-> NoRoomId]

(* --------------------------- the database ----------------------------- *)

RoomIds == {rooms[k].id : k \in DOMAIN rooms}

RoomById(rid) == CHOOSE r \in {rooms[k] : k \in DOMAIN rooms} : r.id = rid

Stored == {bookings[k] : k \in DOMAIN bookings}

\* pets of one account: SELECT * FROM pets WHERE owner_id=?
PetsOf(u) == {k \in DOMAIN pets : pets[k] = u}

\* The overlap test with closed bounds: a booking that ends on the day the
\* requested stay starts would exclude the room.
BookingBlocksClosed(b, rid, start_date, end_date) ==
    /\ b.room_id = rid
    /\ b.status \in {"pending", "confirmed"}
    /\ start_date <= b.end_date
    /\ end_date >= b.start_date

\* The overlap test without the status filter: a booking of any status
\* excludes the room.
BookingBlocksAnyStatus(b, rid, start_date, end_date) ==
    /\ b.room_id = rid
    /\ start_date < b.end_date
    /\ end_date > b.start_date

\* The WHERE clause of the inner SELECT of find_available_rooms.
BookingBlocks(b, rid, start_date, end_date) ==
    /\ b.room_id = rid
    /\ b.status \in {"pending", "confirmed"}
    /\ start_date < b.end_date
    /\ end_date > b.start_date

\* The outer WHERE clause of find_available_rooms.
RoomMatches(r, start_date, end_date, num_pets) ==
    /\ r.capacity >= num_pets
    /\ ~ \E b \in Stored : BookingBlocks(b, r.id, start_date, end_date)

\* The rows in the order of their ids, the ORDER BY clause left out.
RoomBeforeById(r1, r2) == r1.id < r2.id

\* ORDER BY r.room_type ASC, r.name ASC
RoomBefore(r1, r2) ==
    IF r1.room_type # r2.room_type THEN LexLess(r1.room_type, r2.room_type)
    ELSE IF r1.name # r2.name THEN LexLess(r1.name, r2.name)
    ELSE r1.id < r2.id

RECURSIVE OrderRooms(_)
OrderRooms(S) ==
    IF S = {} THEN <<>>
    ELSE LET first == CHOOSE r \in S : \A o \in S \ {r} : RoomBefore(r, o)
         IN <<first.id>> \o OrderRooms(S \ {first})

\* The ids of the rows returned, in order.
find_available_rooms(start_date, end_date, num_pets) ==
    OrderRooms({r \in {rooms[k] : k \in DOMAIN rooms} :
                    RoomMatches(r, start_date, end_date, num_pets)})

\* SELECT last_insert_rowid() on a connection that has inserted nothing.
last_insert_rowid == 0

\* The role test left out: every authenticated account passes.
is_staff_any(u) == users[u] \in {"owner", "staff", "admin"}

is_staff(u) == users[u] \in {"staff", "admin"}

(* ------------------------------ Init ---------------------------------- *)

Init ==
    /\ rooms = SeedRooms
    /\ users = SeedUsers
    /\ pets = SeedPets
    /\ bookings = <<>>
    /\ booking_pets = {}
    /\ pc = [p \in Procs |-> "idle"]
    /\ req = [p \in Procs |-> NoReq]
    /\ available_rooms = [p \in Procs |-> <<>>]
    /\ booking_id = [p \in Procs |-> 0]
    /\ pet_index = [p \in Procs |-> 0]
    /\ response = "none"
    /\ rendered_rooms = <<>>

(* ---------------------------- new_booking ----------------------------- *)

\* A handler returns: the client gets the flash message / page, with the rooms
\* the template was given.
Respond(r, rooms_shown) ==
    /\ response' = r
    /\ rendered_rooms' = rooms_shown

\* Handler p returns: its locals are gone.
Return(p) ==
    /\ pc' = [pc EXCEPT ![p] = "idle"]
    /\ req' = [req EXCEPT ![p] = NoReq]
    /\ available_rooms' = [available_rooms EXCEPT ![p] = <<>>]
    /\ booking_id' = [booking_id EXCEPT ![p] = 0]
    /\ pet_index' = [pet_index EXCEPT ![p] = 0]

\* Creation requests accepted so far that have not inserted their row yet.
AwaitingInsert == {q \in Procs : pc[q] = "insert"}

\* A request is served by the first handler slot that is free.
FreeSlot(p) == pc[p] = "idle" /\ \A q \in Procs : pc[q] = "idle" => p <= q

\* GET /bookings/new: lines 285-288 and 322.
new_booking_get(u) ==
    /\ UNCHANGED <<store, locals>>
    /\ IF PetsOf(u) = {}
       THEN Respond("Add a pet before booking.", <<>>)
       ELSE Respond("form", <<>>)

\* The handler without the comparison of the two dates of lines 296-299.
new_booking_no_order_check(p, u, start_date, end_date, pet_ids, room_id, confirm) ==
    /\ FreeSlot(p)
    /\ UNCHANGED store
    /\ IF PetsOf(u) = {}
       THEN Respond("Add a pet before booking.", <<>>) /\ UNCHANGED locals
       ELSE IF start_date = NoDate \/ end_date = NoDate \/ pet_ids = <<>>
       THEN Respond("Please select dates and pets.", <<>>) /\ UNCHANGED locals
       ELSE LET found == find_available_rooms(start_date, end_date, Len(pet_ids))
            IN IF confirm
               THEN IF IntRaises(room_id)
                    THEN Respond("500", <<>>) /\ UNCHANGED locals
                    ELSE
                    /\ Len(bookings) + Cardinality(AwaitingInsert) < MaxBookings
                    /\ pc' = [pc EXCEPT ![p] = "insert"]
                    /\ req' = [req EXCEPT ![p] =
                                 [user |-> u, start_date |-> start_date,
                                  end_date |-> end_date, pet_ids |-> pet_ids,
                                  room_id |-> room_id]]
                    /\ available_rooms' = [available_rooms EXCEPT ![p] = found]
                    /\ UNCHANGED <<booking_id, pet_index, response, rendered_rooms>>
               ELSE Respond("rooms", found) /\ UNCHANGED locals

\* The handler holding the first room it proposes with a pending booking.
new_booking_reserving(p, u, start_date, end_date, pet_ids, room_id, confirm) ==
    /\ FreeSlot(p)
    /\ UNCHANGED <<rooms, users, pets, booking_pets>>
    /\ IF PetsOf(u) = {}
       THEN Respond("Add a pet before booking.", <<>>) /\ UNCHANGED <<locals, bookings>>
       ELSE IF start_date = NoDate \/ end_date = NoDate \/ pet_ids = <<>>
       THEN Respond("Please select dates and pets.", <<>>) /\ UNCHANGED <<locals, bookings>>
       ELSE IF start_date > end_date
       THEN Respond("End date must be after start date.", <<>>) /\ UNCHANGED <<locals, bookings>>
       ELSE LET found == find_available_rooms(start_date, end_date, Len(pet_ids))
            IN IF confirm
               THEN IF IntRaises(room_id)
                    THEN Respond("500", <<>>) /\ UNCHANGED <<locals, bookings>>
                    ELSE
                    /\ Len(bookings) + Cardinality(AwaitingInsert) < MaxBookings
                    /\ pc' = [pc EXCEPT ![p] = "insert"]
                    /\ req' = [req EXCEPT ![p] =
                                 [user |-> u, start_date |-> start_date,
                                  end_date |-> end_date, pet_ids |-> pet_ids,
                                  room_id |-> room_id]]
                    /\ available_rooms' = [available_rooms EXCEPT ![p] = found]
                    /\ UNCHANGED <<booking_id, pet_index, response, rendered_rooms,
                                   bookings>>
               ELSE /\ Respond("rooms", found) /\ UNCHANGED locals
                    /\ IF found # <<>> /\ Len(bookings) < MaxBookings
                       THEN bookings' = Append(bookings,
                               [id |-> Len(bookings) + 1, owner_id |-> u,
                                start_date |-> start_date, end_date |-> end_date,
                                room_id |-> found[1], status |-> "pending"])
                       ELSE UNCHANGED bookings

\* POST /bookings/new up to the INSERT: lines 285-304 and 319-320 (the pets
\* query, the validation, the availability query and int(room_id)).
new_booking(p, u, start_date, end_date, pet_ids, room_id, confirm) ==
    /\ FreeSlot(p)
    /\ UNCHANGED store
    /\ IF PetsOf(u) = {}
       THEN Respond("Add a pet before booking.", <<>>) /\ UNCHANGED locals
       ELSE IF start_date = NoDate \/ end_date = NoDate \/ pet_ids = <<>>
       THEN Respond("Please select dates and pets.", <<>>) /\ UNCHANGED locals
       ELSE IF start_date > end_date
       THEN Respond("End date must be after start date.", <<>>) /\ UNCHANGED locals
       ELSE LET found == find_available_rooms(start_date, end_date, Len(pet_ids))
            IN IF confirm
               THEN IF IntRaises(room_id)
                    THEN Respond("500", <<>>) /\ UNCHANGED locals
                    ELSE
                    /\ Len(bookings) + Cardinality(AwaitingInsert) < MaxBookings
                    /\ pc' = [pc EXCEPT ![p] = "insert"]
                    /\ req' = [req EXCEPT ![p] =
                                 [user |-> u, start_date |-> start_date,
                                  end_date |-> end_date, pet_ids |-> pet_ids,
                                  room_id |-> room_id]]
                    /\ available_rooms' = [available_rooms EXCEPT ![p] = found]
                    /\ UNCHANGED <<booking_id, pet_index, response, rendered_rooms>>
               ELSE Respond("rooms", found) /\ UNCHANGED locals

\* Lines 305-310: INSERT INTO bookings, then SELECT last_insert_rowid() on a
\* connection of its own.
insert_booking(p) ==
    /\ pc[p] = "insert"
    /\ UNCHANGED <<rooms, users, pets, booking_pets>>
    /\ bookings' = Append(bookings,
          [id |-> Len(bookings) + 1,
           owner_id |-> req[p].user,
           start_date |-> req[p].start_date,
           end_date |-> req[p].end_date,
           room_id |-> req[p].room_id,
           status |-> "pending"])
    /\ booking_id' = [booking_id EXCEPT ![p] = last_insert_rowid]
    /\ pet_index' = [pet_index EXCEPT ![p] = 1]
    /\ pc' = [pc EXCEPT ![p] = "pets"]
    \* from here on the handler reads only booking_id and pet_ids
    /\ req' = [req EXCEPT ![p] = [NoReq EXCEPT !.pet_ids = req[p].pet_ids]]
    /\ available_rooms' = [available_rooms EXCEPT ![p] = <<>>]
    /\ UNCHANGED <<response, rendered_rooms>>

\* Lines 312-318: one INSERT INTO booking_pets per posted pet id, then the redirect.
insert_booking_pet(p) ==
    /\ pc[p] = "pets"
    /\ UNCHANGED <<rooms, users, pets, bookings>>
    /\ LET row == <<booking_id[p], req[p].pet_ids[pet_index[p]]>>
       IN IF row \in booking_pets
          THEN \* PRIMARY KEY(booking_id, pet_id): sqlite3.IntegrityError
               /\ Respond("500", <<>>)
               /\ Return(p)
               /\ UNCHANGED booking_pets
          ELSE /\ booking_pets' = booking_pets \cup {row}
               /\ IF pet_index[p] = Len(req[p].pet_ids)
                  THEN /\ Respond("Booking created! Awaiting confirmation.", <<>>)
                       /\ Return(p)
                  ELSE /\ pet_index' = [pet_index EXCEPT ![p] = pet_index[p] + 1]
                       /\ UNCHANGED <<pc, req, available_rooms, booking_id,
                                      response, rendered_rooms>>

(* ---------------------------- staff_confirm --------------------------- *)

\* The UPDATE without its WHERE clause: every row becomes confirmed.
ConfirmRowsAll(bid) ==
    [k \in DOMAIN bookings |-> [bookings[k] EXCEPT !.status = "confirmed"]]

\* UPDATE bookings SET status='confirmed' WHERE id=?
ConfirmRows(bid) ==
    [k \in DOMAIN bookings |->
        IF bookings[k].id = bid
        THEN [bookings[k] EXCEPT !.status = "confirmed"]
        ELSE bookings[k]]

\* GET /staff/confirm/<bid>: lines 353-361.
staff_confirm(u, bid) ==
    /\ IF ~ is_staff(u)
       THEN /\ Respond("Staff access only.", <<>>)
            /\ UNCHANGED bookings
       ELSE /\ bookings' = ConfirmRows(bid)
            /\ Respond("Booking confirmed.", <<>>)
    /\ UNCHANGED <<rooms, users, pets, booking_pets, locals>>

(* ------------------------------ Next ---------------------------------- *)

NewBookingGetStep == \E u \in BookingUsers : new_booking_get(u)

NewBookingStep ==
    \E p \in Procs, f \in PostedForms :
        new_booking(p, f.user, f.start_date, f.end_date, f.pet_ids, f.room_id, f.confirm)

InsertBookingStep == \E p \in Procs : insert_booking(p)

InsertBookingPetStep == \E p \in Procs : insert_booking_pet(p)

StaffConfirmStep == \E u \in UserIds, bid \in BidInputs : staff_confirm(u, bid)

Next ==
    \/ NewBookingGetStep
    \/ NewBookingStep
    \/ InsertBookingStep
    \/ InsertBookingPetStep
    \/ StaffConfirmStep

Spec == Init /\ [][Next]_vars

(* ------------------ requests served one at a time --------------------- *)

\* No handler is between two database calls.
AllIdle == \A p \in Procs : pc[p] = "idle"

\* The forms of clients that all ask for room 1.
SerialForms == {f : f \in {g \in PostedForms : g.room_id \in {NoRoomId, 1}}}

SerialNewBookingStep ==
    \E p \in Procs, f \in SerialForms :
        new_booking(p, f.user, f.start_date, f.end_date, f.pet_ids, f.room_id, f.confirm)

\* A deployment with a single synchronous worker: a request is taken only when
\* the one before it has returned.
SerialNext ==
    \/ AllIdle /\ NewBookingGetStep
    \/ AllIdle /\ SerialNewBookingStep
    \/ InsertBookingStep
    \/ InsertBookingPetStep
    \/ AllIdle /\ StaffConfirmStep

SpecSerial == Init /\ [][SerialNext]_vars

(* ------------------- the lifecycle with cancellation ------------------ *)

\* CancelBooking of the specification, section 4.2 (app.py has no such
\* operation): a pending or confirmed booking becomes cancelled; an unknown id
\* or a cancelled booking is refused and nothing changes.
CancelRows(bid) ==
    [k \in DOMAIN bookings |->
        IF bookings[k].id = bid /\ bookings[k].status \in {"pending", "confirmed"}
        THEN [bookings[k] EXCEPT !.status = "cancelled"]
        ELSE bookings[k]]

cancel_booking(bid) ==
    /\ bookings' = CancelRows(bid)
    /\ IF bookings' # bookings
       THEN Respond("Booking cancelled.", <<>>)
       ELSE Respond("Cancel refused.", <<>>)
    /\ UNCHANGED <<rooms, users, pets, booking_pets, locals>>

CancelBookingStep == \E bid \in BidInputs : cancel_booking(bid)

\* The forms of one owner, user 1, asking for room 1, that pass validation.
LifecycleForms == {f : f \in {g \in SerialForms : g.user = 1 /\ ~Rejected(g)}}

LifecycleNewBookingStep ==
    \E p \in Procs, f \in LifecycleForms :
        new_booking(p, f.user, f.start_date, f.end_date, f.pet_ids, f.room_id, f.confirm)

\* Confirmations by the staff user, user 2.
LifecycleConfirmStep == \E bid \in BidInputs : staff_confirm(2, bid)

\* Requests served one at a time, with cancellation among them.
LifecycleNext ==
    \/ AllIdle /\ LifecycleNewBookingStep
    \/ InsertBookingStep
    \/ InsertBookingPetStep
    \/ AllIdle /\ LifecycleConfirmStep
    \/ AllIdle /\ CancelBookingStep

SpecLifecycle == Init /\ [][LifecycleNext]_vars

(* ------------------------- the stated properties ---------------------- *)

\* Half-open ranges [s1,e1) and [s2,e2) overlap.
Overlap(s1, e1, s2, e2) == s1 < e2 /\ s2 < e1

Active(b) == b.status \in {"pending", "confirmed"}

Range(seq) == {seq[k] : k \in DOMAIN seq}

\* Handler p is about to insert a row for a room on which an active stored
\* booking overlaps the requested range.
Conflict(p) ==
    /\ pc[p] = "insert"
    /\ \E b \in Stored :
          /\ Active(b)
          /\ b.room_id = req[p].room_id
          /\ Overlap(b.start_date, b.end_date, req[p].start_date, req[p].end_date)

\* Handler p takes its INSERT INTO bookings step.
Inserts(p) == pc[p] = "insert" /\ pc'[p] # "insert"

\* C1: for every room, any two distinct stored bookings on it whose status is
\* pending or confirmed have non-overlapping date ranges.
C1_NoOverlap ==
    \A i \in DOMAIN bookings, j \in DOMAIN bookings :
        (i # j /\ bookings[i].room_id = bookings[j].room_id
              /\ Active(bookings[i]) /\ Active(bookings[j]))
        => ~ Overlap(bookings[i].start_date, bookings[i].end_date,
                     bookings[j].start_date, bookings[j].end_date)

QueryDays == 1..(MaxDay + 1)

QueryCapacities == 1..3

\* C2: in every store state, for every start < end and every required capacity,
\* a room is in find_available_rooms(start, end, capacity) if and only if its
\* capacity is at least the required one and no pending or confirmed booking on
\* it overlaps [start, end) as a half-open range; nothing but rooms is returned.
C2_AvailabilityIff ==
    \A s \in QueryDays, e \in QueryDays, c \in QueryCapacities :
        s < e =>
            LET result == Range(find_available_rooms(s, e, c))
            IN /\ result \subseteq RoomIds
               /\ \A k \in DOMAIN rooms :
                     rooms[k].id \in result
                     <=> /\ rooms[k].capacity >= c
                         /\ ~ \E b \in Stored :
                               /\ b.room_id = rooms[k].id
                               /\ Active(b)
                               /\ Overlap(b.start_date, b.end_date, s, e)

\* A proposal was answered without room 1 while an active booking with a
\* non-empty range holds room 1: the room is excluded for the booked range and
\* offered again for the stay that starts on the day the booking ends.
C2_Witness ==
    /\ response = "rooms"
    /\ 1 \notin Range(rendered_rooms)
    /\ \E b \in Stored :
          /\ Active(b) /\ b.room_id = 1 /\ b.start_date < b.end_date
          /\ 1 \notin Range(find_available_rooms(b.start_date, b.end_date, 1))
          /\ 1 \in Range(find_available_rooms(b.end_date, b.end_date + 1, 1))

\* C3: of two creation requests for the same room and overlapping ranges that
\* run concurrently, one inserts and the other fails with a room conflict: a
\* request that read the room as available and finds, when it comes to its
\* insert, an overlapping active booking that a concurrent request has inserted
\* since, inserts nothing.
C3_ConcurrentCreateOneWins ==
    [][\A p \in Procs :
          (Inserts(p) /\ Conflict(p) /\ req[p].room_id \in Range(available_rooms[p]))
          => bookings' = bookings]_vars

\* C4: a creation request whose room already has an overlapping pending or
\* confirmed booking writes nothing to bookings and booking_pets.
C4_ConflictWritesNothing ==
    [][\A p \in Procs :
          (Inserts(p) /\ Conflict(p))
          => (bookings' = bookings /\ booking_pets' = booking_pets)]_vars

\* C5: in every state, every booking row has a pet association and every pet
\* association belongs to a booking row.
C5_BookingAndPetsAtomic ==
    /\ \A b \in Stored : \E row \in booking_pets : row[1] = b.id
    /\ \A row \in booking_pets : \E b \in Stored : b.id = row[1]

\* C6: every stored booking has start_date < end_date.
C6_StrictRange == \A b \in Stored : b.start_date < b.end_date

\* C7: a creation request with more pets than the capacity of the chosen room
\* writes nothing to the store.
C7_OverCapacityWritesNothing ==
    [][\A p \in Procs :
          (/\ Inserts(p)
           /\ req[p].room_id \in RoomIds
           /\ Len(req[p].pet_ids) > RoomById(req[p].room_id).capacity)
          => (bookings' = bookings /\ booking_pets' = booking_pets)]_vars

\* C8: confirming a stored booking that is not pending does not report success
\* and does not change the booking's status.
C8_ConfirmNonPendingFails ==
    [][\A u \in UserIds, bid \in BidInputs :
          (/\ users[u] \in {"staff", "admin"}
           /\ \E b \in Stored : b.id = bid /\ b.status # "pending"
           /\ staff_confirm(u, bid))
          => (response' # "Booking confirmed." /\ bookings' = bookings)]_vars

\* C9: confirming a booking id that is not in the store is not reported as a
\* successful confirmation and leaves the store unchanged.
C9_ConfirmUnknownFails ==
    [][\A u \in UserIds, bid \in BidInputs :
          (/\ users[u] \in {"staff", "admin"}
           /\ ~ \E b \in Stored : b.id = bid
           /\ staff_confirm(u, bid))
          => (response' # "Booking confirmed." /\ store' = store)]_vars

\* Some stored booking's status differs after the step.
StatusChanges ==
    \E k \in DOMAIN bookings : bookings'[k].status # bookings[k].status

\* C10: when staff_confirm is invoked by a caller with role owner no booking
\* changes, and every change of a booking's status is a staff_confirm invoked
\* by a caller with role staff or admin.
C10_OnlyStaffConfirms ==
    [][/\ \A u \in UserIds, bid \in BidInputs :
             (users[u] = "owner" /\ staff_confirm(u, bid)) => bookings' = bookings
       /\ StatusChanges =>
             \E u \in UserIds, bid \in BidInputs :
                 users[u] \in {"staff", "admin"} /\ staff_confirm(u, bid)]_vars

\* An owner's confirmation was turned away while a pending booking was stored
\* and no creation was in flight.
C10_Witness ==
    /\ response = "Staff access only."
    /\ \A p \in Procs : pc[p] = "idle"
    /\ \E b \in Stored : b.status = "pending"

\* C11: a cancelled booking never excludes its room: in every store state, for
\* every cancelled booking, every range start < end that overlaps it and every
\* capacity its room satisfies, if no pending or confirmed booking on that room
\* overlaps the range then find_available_rooms returns the room.
C11_CancelledFreesRoom ==
    \A b \in {x \in Stored : x.status = "cancelled" /\ x.room_id \in RoomIds} :
        \A s \in QueryDays, e \in QueryDays, c \in QueryCapacities :
            (/\ s < e
             /\ Overlap(b.start_date, b.end_date, s, e)
             /\ RoomById(b.room_id).capacity >= c
             /\ \A o \in Stored :
                   (o.room_id = b.room_id /\ Overlap(o.start_date, o.end_date, s, e))
                   => ~Active(o))
            => b.room_id \in Range(find_available_rooms(s, e, c))

\* After the only booking on room 1 was cancelled, a proposal was answered
\* with room 1, and the resolve for the cancelled booking's range has it.
C11_Witness ==
    /\ response = "rooms"
    /\ 1 \in Range(rendered_rooms)
    /\ \E b \in Stored :
          /\ b.status = "cancelled" /\ b.room_id = 1 /\ b.start_date < b.end_date
          /\ \A o \in Stored : o.room_id = 1 => o = b
          /\ 1 \in Range(find_available_rooms(b.start_date, b.end_date, 1))

\* A pet id of the request of handler p names a pet of another account.
ForeignPet(p) ==
    \E k \in DOMAIN req[p].pet_ids : pets[req[p].pet_ids[k]] # req[p].user

\* C12: a creation request whose pet_ids include a pet owned by another account
\* writes nothing to bookings and booking_pets.
C12_ForeignPetWritesNothing ==
    [][\A p \in Procs :
          (Inserts(p) /\ ForeignPet(p))
          => (bookings' = bookings /\ booking_pets' = booking_pets)]_vars

\* C13: no step moves a confirmed or cancelled booking to pending, and no step
\* changes the status of a cancelled booking.
C13_TerminalStates ==
    [][\A k \in DOMAIN bookings :
          /\ bookings[k].status \in {"confirmed", "cancelled"}
                => bookings'[k].status # "pending"
          /\ bookings[k].status = "cancelled"
                => bookings'[k].status = "cancelled"]_vars

\* C14: the room_id of every stored booking is the id of a room of the catalog.
C14_RoomExists == \A b \in Stored : b.room_id \in RoomIds

\* C15: a booking request rejected by the input validation (a missing date, no
\* pet, or start date after end date), with or without confirm=1 and a room id,
\* leaves every table as it was and leaves no insertion pending: a step that
\* changes a table or a handler's locals is not the step of such a request.
\* The forms that fail the validation, with and without confirm=1.
RejectedForms == {f : f \in {g \in SerialForms : Rejected(g)}}

C15_RejectedNoEffect ==
    [][\/ store' = store /\ locals' = locals
       \/ ~ \E p \in Procs, f \in RejectedForms :
               new_booking(p, f.user, f.start_date, f.end_date, f.pet_ids,
                           f.room_id, f.confirm)]_vars

\* A request was turned away by the validation while a booking was stored and
\* no creation was in flight.
C15_Witness ==
    /\ response \in {"Please select dates and pets.",
                     "End date must be after start date."}
    /\ AllIdle
    /\ bookings # <<>>
    /\ booking_pets # {}

\* Texts a and b agree before position k; a sorts strictly before b, byte by
\* byte from position k on.
RECURSIVE TextLessFrom(_, _, _)
TextLessFrom(a, b, k) ==
    IF k > Len(b) THEN FALSE
    ELSE IF k > Len(a) THEN TRUE
    ELSE IF a[k] # b[k] THEN a[k] < b[k]
    ELSE TextLessFrom(a, b, k + 1)

TextLess(a, b) == TextLessFrom(a, b, 1)

\* Room r1 comes strictly before room r2 by room type, then by name.
TypeThenName(r1, r2) ==
    \/ TextLess(r1.room_type, r2.room_type)
    \/ r1.room_type = r2.room_type /\ TextLess(r1.name, r2.name)

\* Each room of the sequence comes strictly before the next one.
Sorted(result) ==
    \A i \in 1..(Len(result) - 1) :
        TypeThenName(RoomById(result[i]), RoomById(result[i + 1]))

\* C16: in every store state, for all arguments start < end and every number
\* of pets some room can take, the sequence returned by find_available_rooms is
\* strictly ascending by room type and, within one room type, by name, so the
\* store and the arguments determine the sequence; the rooms a proposal listed
\* are in that order too.
C16_SortedByTypeThenName ==
    /\ response = "rooms" => Sorted(rendered_rooms)
    /\ \A s \in QueryDays, e \in QueryDays :
          s < e => \A c \in {rooms[k].capacity : k \in DOMAIN rooms} :
                      Sorted(find_available_rooms(s, e, c))

\* A proposal listed all four rooms, the Deluxe room (id 3) first and the Suite
\* (id 4) last, while a booking was stored.
C16_Witness ==
    /\ response = "rooms"
    /\ rendered_rooms = <<3, 1, 2, 4>>
    /\ bookings # <<>>

\* The forms posted without confirm=1.
ProposalForms == {f : f \in {g \in SerialForms : ~ g.confirm}}

\* C17: a new_booking POST without confirm=1 leaves every table as it was and
\* starts no insertion: a step that changes a table or a handler's locals is
\* not the step of such a request.
C17_ProposalReadsOnly ==
    [][\/ store' = store /\ locals' = locals
       \/ ~ \E p \in Procs, f \in ProposalForms :
               new_booking(p, f.user, f.start_date, f.end_date, f.pet_ids,
                           f.room_id, f.confirm)]_vars

\* A proposal listed room 1 while a pending booking on room 1 for other days
\* is stored and no creation is in flight.
C17_Witness ==
    /\ response = "rooms"
    /\ AllIdle
    /\ 1 \in Range(rendered_rooms)
    /\ \E b \in Stored : b.room_id = 1 /\ b.status = "pending"

\* C18: the booking id a creation request reads after its INSERT, which it
\* writes into its booking_pets rows, is the id of the row it inserted; and once
\* no creation is in flight every stored booking has a pet association under
\* its id.
C18_PetRowsCarryBookingId ==
    [][/\ \A p \in Procs :
             Inserts(p) => booking_id'[p] = bookings'[Len(bookings')].id
       /\ (\A p \in Procs : pc'[p] = "idle")
             => \A b \in {bookings'[k] : k \in DOMAIN bookings'} :
                   \E row \in booking_pets' : row[1] = b.id]_vars

\* Row k of bookings after the step is row k before it, but for the status.
SameButStatus(k) ==
    bookings'[k] = [bookings[k] EXCEPT !.status = bookings'[k].status]

\* The step leaves rooms and booking_pets as they were, adds and removes no
\* booking and changes no booking but the one with id bid.
ConfirmFrame(bid) ==
    /\ rooms' = rooms
    /\ booking_pets' = booking_pets
    /\ Len(bookings') = Len(bookings)
    /\ \A k \in DOMAIN bookings : bookings[k].id # bid => bookings'[k] = bookings[k]

\* C19: staff_confirm(bid) leaves rooms and booking_pets unchanged, changes no
\* booking but the one with id bid and of that one nothing but the status (a
\* step that does more is not a staff_confirm(bid)); and no step of any
\* operation removes a booking row or changes anything but the status of a
\* stored row.
C19_ConfirmFrame ==
    [][/\ Len(bookings') >= Len(bookings)
       /\ \A k \in DOMAIN bookings : SameButStatus(k)
       /\ \A bid \in BidInputs :
             \/ ConfirmFrame(bid)
             \/ ~ \E u \in UserIds : is_staff(u) /\ staff_confirm(u, bid)]_vars

\* A confirmation succeeded and left another stored booking pending, with the
\* pet associations in place.
C19_Witness ==
    /\ response = "Booking confirmed."
    /\ AllIdle
    /\ \E b \in Stored : b.status = "confirmed"
    /\ \E b \in Stored : b.status = "pending"
    /\ booking_pets # {}

====
